---- MODULE Spec2Model ----
(***************************************************************************)
(* A model of gensim.models.keyedvectors: the entity->vector store         *)
(* (BaseKeyedVectors / WordEmbeddingsKeyedVectors), its normalized cache,  *)
(* the similarity queries that read it, the subword store                  *)
(* (FastTextKeyedVectors) and the expansion of its legacy bucket table.    *)
(*                                                                         *)
(* Numbers.  A matrix entry is a fixed-point number: the integer k stands  *)
(* for the real k / Scale.  The input vectors are chosen so that their     *)
(* Euclidean length is a whole fixed-point number, which makes the         *)
(* L2-normalisation of _l2_norm exact.  Python's None is the empty set and *)
(* a present value x is {x}.  Matrix rows and Python list positions are    *)
(* 0-based in the source and 1-based in the sequences of the model: the    *)
(* row of index i is vectors[i + 1].                                       *)
(***************************************************************************)
EXTENDS Integers, Sequences, FiniteSets, TLC

VARIABLES vocab, index2word, vectors, vectors_norm, shared, call, ret,
          bucket, vectors_vocab, vectors_ngrams, vectors_ngrams_norm, hash2index, rand_state,
          threads, docvecs

vars == <<vocab, index2word, vectors, vectors_norm, shared, call, ret,
          bucket, vectors_vocab, vectors_ngrams, vectors_ngrams_norm, hash2index, rand_state,
          threads, docvecs>>

\* the fields of the subword store, and the state of the numpy generator its loader seeds
subword == <<bucket, vectors_vocab, vectors_ngrams, vectors_ngrams_norm, hash2index, rand_state>>

\* ---- bounds of the model ------------------------------------------------
MaxRows == 3
MaxQueryRows == 2
MaxBatch == 2
MaxTopn == 1
MaxRestrict == 1
MaxBucket == 2
MaxLegacyBucket == 4
MaxCorruptBucket == 2
MaxCorruptPairs == 2
MaxDocs == 3

\* ---- parameters of the store ---------------------------------------------
vector_size == 2
Scale == 5
Entities == {"a", "b"}
InVecs == {<<10, 0>>, <<3, 4>>}
RawVec == <<-3, 4>>

\* ---- Python values -------------------------------------------------------
None == {}
Some(x) == {x}
Val(o) == CHOOSE x \in o : TRUE

Min(a, b) == IF a < b THEN a ELSE b
Max(a, b) == IF a < b THEN b ELSE a

\* s[:k] of a Python sequence (k None: the whole sequence; k < 0 counts from the end)
RowsOfSeq(s) == {s[k] : k \in 1..Len(s)}

PySliceTo(s, k) ==
  IF k = None THEN s
  ELSE IF Val(k) < 0 THEN SubSeq(s, 1, Max(Len(s) + Val(k), 0))
  ELSE SubSeq(s, 1, Min(Val(k), Len(s)))

RECURSIVE SumSeq(_)
SumSeq(s) == IF s = <<>> THEN 0 ELSE Head(s) + SumSeq(Tail(s))

\* numpy.dot of two vectors; the product of two fixed-point numbers is in units of 1/Scale^2
dot(u, v) == SumSeq([i \in 1..vector_size |-> u[i] * v[i]])

\* sqrt((m ** 2).sum(-1)) for one row, in fixed-point units
Norm(v) == CHOOSE n \in 0..(8 * Scale) : n * n <= dot(v, v) /\ dot(v, v) < (n + 1) * (n + 1)

UnitRow(v) == [i \in 1..vector_size |-> (Scale * v[i]) \div Norm(v)]

\* _l2_norm(m, replace): the normalized matrix (the caller decides what it aliases)
l2_norm(m) == [r \in 1..Len(m) |-> UnitRow(m[r])]

\* Vocab(index=..., count=1)
Vocab(i) == [index |-> i, count |-> 1]

\* ---- BaseKeyedVectors.add ------------------------------------------------
in_vocab_mask(voc, entities) == [idx \in 1..Len(entities) |-> entities[idx] \in DOMAIN voc]

\* the loop "add new entities to the vocab" over the positions idx..len of the batch
RECURSIVE AddNewVocab(_, _, _, _)
AddNewVocab(voc, entities, mask, idx) ==
  IF idx > Len(entities) THEN voc
  ELSE IF mask[idx] THEN AddNewVocab(voc, entities, mask, idx + 1)
  ELSE LET entity == entities[idx]
           n == Cardinality(DOMAIN voc)
           voc2 == [e \in (DOMAIN voc) \cup {entity} |-> IF e = entity THEN Vocab(n) ELSE voc[e]]
       IN AddNewVocab(voc2, entities, mask, idx + 1)

RECURSIVE MaskSelect(_, _, _, _)
MaskSelect(s, mask, want, idx) ==
  IF idx > Len(s) THEN <<>>
  ELSE IF mask[idx] = want THEN <<s[idx]>> \o MaskSelect(s, mask, want, idx + 1)
  ELSE MaskSelect(s, mask, want, idx + 1)

\* self.vectors[in_vocab_idxs] = weights[in_vocab_mask]: assigned in order, the last one wins
RECURSIVE AssignRows(_, _, _, _)
AssignRows(m, idxs, rows, k) ==
  IF k > Len(idxs) THEN m
  ELSE AssignRows([m EXCEPT ![idxs[k] + 1] = rows[k]], idxs, rows, k + 1)

AddVocab(voc, entities) == AddNewVocab(voc, entities, in_vocab_mask(voc, entities), 1)

AddIndex2Entity(voc, i2e, entities) == i2e \o MaskSelect(entities, in_vocab_mask(voc, entities), FALSE, 1)

AddVectors(voc, m, entities, weights, replace) ==
  LET mask == in_vocab_mask(voc, entities)
      voc2 == AddVocab(voc, entities)
      stacked == m \o MaskSelect(weights, mask, FALSE, 1)
      known == MaskSelect(entities, mask, TRUE, 1)
      in_vocab_idxs == [k \in 1..Len(known) |-> voc2[known[k]].index]
  IN IF replace THEN AssignRows(stacked, in_vocab_idxs, MaskSelect(weights, mask, TRUE, 1), 1)
     ELSE stacked

\* ---- the record of the last call and of what it returned -----------------
NoCall == [op |-> "init", entities |-> <<>>, replace |-> FALSE,
           positive |-> <<>>, negative |-> <<>>, topn |-> None, restrict_vocab |-> None,
           word |-> None, use_norm |-> FALSE]

\* the threads that call the store, and what a thread that is not inside a call looks like:
\* pc is its place in the call, q the call and its arguments, norm0 and ngrams_norm0 the
\* caches as they were when the call began, ok_vocab and saved the locals ok_vocab and
\* original_vocab of an evaluation
Threads == {"t1", "t2"}

IdleThread == [pc |-> "idle", q |-> NoCall, norm0 |-> None, ngrams_norm0 |-> None,
               ok_vocab |-> None, saved |-> None]

NoThreads == [t \in Threads |-> IdleThread]

\* Doc2VecKeyedVectors.__init__: no document vectors, no cache, no mapfile
NoDocvecs == [vectors_docs |-> <<>>, vectors_docs_norm |-> None, mapfile_path |-> None]

NoRet == [kind |-> "none", err |-> "", items |-> <<>>, dists |-> <<>>, vec |-> None, word |-> None,
          value |-> None]

Raise(e) == [NoRet EXCEPT !.kind = "raise", !.err = e]

Batches(k) == [1..k -> Entities] \X [1..k -> InVecs]

Init ==
  /\ vocab = [e \in {} |-> Vocab(0)]
  /\ index2word = <<>>
  /\ vectors = <<>>
  /\ vectors_norm = None
  /\ shared = FALSE
  /\ call = NoCall
  /\ ret = NoRet
  /\ bucket = 0
  /\ vectors_vocab = None
  /\ vectors_ngrams = None
  /\ vectors_ngrams_norm = None
  /\ hash2index = None
  /\ rand_state = None
  /\ threads = NoThreads
  /\ docvecs = NoDocvecs

\* add(entities, weights, replace)
DoAdd(op, entities, weights, replace, cap) ==
  /\ Len(AddIndex2Entity(vocab, index2word, entities)) <= cap
  /\ vocab' = AddVocab(vocab, entities)
  /\ index2word' = AddIndex2Entity(vocab, index2word, entities)
  /\ vectors' = AddVectors(vocab, vectors, entities, weights, replace)
  /\ shared' = FALSE
  /\ UNCHANGED vectors_norm
  /\ call' = [NoCall EXCEPT !.op = op, !.replace = replace]
  /\ ret' = NoRet
  /\ UNCHANGED <<subword, threads, docvecs>>

Add(cap) ==
  \E k \in 1..MaxBatch : \E b \in Batches(k) : \E replace \in BOOLEAN :
    DoAdd("add", b[1], b[2], replace, cap)

\* store[entities] = weights
SetItem(cap) ==
  \E k \in 1..MaxBatch : \E b \in Batches(k) :
    DoAdd("setitem", b[1], b[2], TRUE, cap)

\* init_sims(replace)
InitSimsNorm(norm, m, replace) == IF norm = None \/ replace THEN Some(l2_norm(m)) ELSE norm

InitSimsVectors(m, replace) == IF replace THEN l2_norm(m) ELSE m

InitSimsShared(norm, sh, replace) == IF replace THEN TRUE ELSE IF norm = None THEN FALSE ELSE sh

InitSims ==
  \E replace \in BOOLEAN :
    /\ vectors_norm' = InitSimsNorm(vectors_norm, vectors, replace)
    /\ vectors' = InitSimsVectors(vectors, replace)
    /\ shared' = InitSimsShared(vectors_norm, shared, replace)
    /\ UNCHANGED <<vocab, index2word>>
    /\ call' = [NoCall EXCEPT !.op = "init_sims", !.replace = replace]
    /\ ret' = NoRet
    /\ UNCHANGED <<subword, threads, docvecs>>

\* word_vec with a default vector for an unknown word instead of the KeyError
word_vec_default(voc, m, norm, word, use_norm) ==
  IF word \in DOMAIN voc
  THEN IF use_norm
       THEN IF norm = None THEN Raise("TypeError")
            ELSE IF voc[word].index + 1 > Len(Val(norm)) THEN Raise("IndexError")
            ELSE [NoRet EXCEPT !.kind = "vector", !.vec = Some(Val(norm)[voc[word].index + 1])]
       ELSE IF voc[word].index + 1 > Len(m) THEN Raise("IndexError")
       ELSE [NoRet EXCEPT !.kind = "vector", !.vec = Some(m[voc[word].index + 1])]
  ELSE [NoRet EXCEPT !.kind = "vector", !.vec = Some([i \in 1..vector_size |-> 0])]

\* word_vec(word, use_norm)
word_vec(voc, m, norm, word, use_norm) ==
  IF word \in DOMAIN voc
  THEN IF use_norm
       THEN IF norm = None THEN Raise("TypeError")
            ELSE IF voc[word].index + 1 > Len(Val(norm)) THEN Raise("IndexError")
            ELSE [NoRet EXCEPT !.kind = "vector", !.vec = Some(Val(norm)[voc[word].index + 1])]
       ELSE IF voc[word].index + 1 > Len(m) THEN Raise("IndexError")
       ELSE [NoRet EXCEPT !.kind = "vector", !.vec = Some(m[voc[word].index + 1])]
  ELSE Raise("KeyError")

\* get_vector(word), store[word]
GetVector ==
  \E word \in Entities :
    /\ ret' = word_vec(vocab, vectors, vectors_norm, word, FALSE)
    /\ call' = [NoCall EXCEPT !.op = "get_vector", !.word = Some(word)]
    /\ UNCHANGED <<vocab, index2word, vectors, vectors_norm, shared>>
    /\ UNCHANGED <<subword, threads, docvecs>>

\* ---- query terms ---------------------------------------------------------
\* an element of `positive` / `negative`: a word, a raw vector, or a (word, weight) pair
TermW(w) == [word |-> Some(w), vec |-> None, weight |-> None]
TermV(v) == [word |-> None, vec |-> Some(v), weight |-> None]
TermWW(w, x) == [word |-> Some(w), vec |-> None, weight |-> Some(x)]

\* (word, 1.0) / (word, -1.0) for the terms that carry no weight
WithWeights(terms, default) ==
  [k \in 1..Len(terms) |->
     IF terms[k].weight = None THEN [terms[k] EXCEPT !.weight = Some(default)] ELSE terms[k]]

\* the vector a term contributes: a raw vector as it is, a word through word_vec(word, use_norm=True)
TermVec(voc, m, norm, t) ==
  IF t.vec # None THEN [NoRet EXCEPT !.kind = "vector", !.vec = t.vec]
  ELSE word_vec(voc, m, norm, Val(t.word), TRUE)

\* the result of the first term whose lookup raises, NoRet when none does
RECURSIVE FirstRaise(_, _, _, _, _)
FirstRaise(voc, m, norm, terms, k) ==
  IF k > Len(terms) THEN NoRet
  ELSE IF TermVec(voc, m, norm, terms[k]).kind = "raise" THEN TermVec(voc, m, norm, terms[k])
  ELSE FirstRaise(voc, m, norm, terms, k + 1)

\* weight * vector
Scaled(x, v) == [i \in 1..vector_size |-> x * v[i]]

RECURSIVE VecSum(_)
VecSum(vs) ==
  IF vs = <<>> THEN [i \in 1..vector_size |-> 0]
  ELSE [i \in 1..vector_size |-> Head(vs)[i] + VecSum(Tail(vs))[i]]

\* ---- scores ---------------------------------------------------------------
\* A score is a pair <<num, den>>.  For most_similar and doesnt_match it stands for
\* num / (Scale * |sum of the weighted terms|) with den = 1: the query vector is
\* unitvec(mean), the same positive factor for every row.  For most_similar_cosmul it
\* stands for num / (den + eps) up to the same positive factor for every row, eps being
\* the 0.000001 of the source scaled by Scale^2 per negative term; eps * |num - num2| < 1
\* for the terms of the model, so two scores compare as their cross product and, when
\* that is 0, as their numerators.
ScoreCmp(x, y) ==
  LET c == x[1] * y[2] - y[1] * x[2]
  IN IF c # 0 THEN c ELSE x[1] - y[1]

\* matutils.argsort(x, topn, reverse=True): the 0-based positions of the topn greatest
\* values, greatest first, equal values in row order
argsort(x, topn) ==
  LET n == Len(x)
      before(i) == Cardinality({j \in 1..n : ScoreCmp(x[j], x[i]) > 0 \/ (ScoreCmp(x[j], x[i]) = 0 /\ j < i)})
      order == [p \in 1..n |-> CHOOSE i \in 1..n : before(i) = p - 1]
  IN IF topn <= 0 THEN <<>> ELSE [p \in 1..Min(topn, n) |-> order[p] - 1]

\* [(self.index2word[sim], float(dists[sim])) for sim in best if sim not in all_words]
RECURSIVE BestItems(_, _, _, _, _)
BestItems(i2w, dists, best, all_words, k) ==
  IF k > Len(best) THEN <<>>
  ELSE IF best[k] \in all_words THEN BestItems(i2w, dists, best, all_words, k + 1)
  ELSE <<(<<i2w[best[k] + 1], dists[best[k] + 1]>>)>> \o BestItems(i2w, dists, best, all_words, k + 1)

WordIndexes(voc, terms) ==
  {voc[Val(terms[k].word)].index : k \in {j \in 1..Len(terms) : terms[j].word # None /\ Val(terms[j].word) \in DOMAIN voc}}

\* ---- most_similar (indexer = None) ----------------------------------------
\* norm is the cache after the call's init_sims()
most_similar(voc, i2w, m, norm, positive, negative, topn, restrict_vocab) ==
  IF topn # None /\ Val(topn) < 1 THEN [NoRet EXCEPT !.kind = "list"]
  ELSE
    LET terms == WithWeights(positive, 1) \o WithWeights(negative, -1)
        bad == FirstRaise(voc, m, norm, terms, 1)
        mean == [k \in 1..Len(terms) |-> Scaled(Val(terms[k].weight), Val(TermVec(voc, m, norm, terms[k]).vec))]
        all_words == WordIndexes(voc, terms)
        msum == VecSum(mean)
        limited == PySliceTo(Val(norm), restrict_vocab)
        dists == [r \in 1..Len(limited) |-> <<dot(limited[r], msum), 1>>]
        best == argsort(dists, Val(topn) + Cardinality(all_words))
        result == BestItems(i2w, dists, best, all_words, 1)
    IN IF bad.kind = "raise" THEN bad
       ELSE IF terms = <<>> THEN Raise("ValueError")
       ELSE IF topn = None THEN [NoRet EXCEPT !.kind = "dists", !.dists = dists]
       ELSE [NoRet EXCEPT !.kind = "list", !.items = PySliceTo(result, topn)]

\* ---- most_similar_cosmul ---------------------------------------------------
RECURSIVE ProdShifted(_, _, _, _, _, _)
ProdShifted(voc, m, norm, row, terms, k) ==
  IF k > Len(terms) THEN 1
  ELSE (Scale * Scale + dot(row, Val(TermVec(voc, m, norm, terms[k]).vec)))
         * ProdShifted(voc, m, norm, row, terms, k + 1)

most_similar_cosmul(voc, i2w, m, norm, positive, negative, topn) ==
  LET all_words == WordIndexes(voc, positive \o negative)
      bad == FirstRaise(voc, m, norm, positive \o negative, 1)
      rows == Val(norm)
      dists == [r \in 1..Len(rows) |->
                  <<ProdShifted(voc, m, norm, rows[r], positive, 1),
                    ProdShifted(voc, m, norm, rows[r], negative, 1)>>]
      best == argsort(dists, Val(topn) + Cardinality(all_words))
      result == BestItems(i2w, dists, best, all_words, 1)
  IN IF bad.kind = "raise" THEN bad
     ELSE IF positive = <<>> THEN Raise("ValueError")
     ELSE IF topn = None \/ Val(topn) = 0 THEN [NoRet EXCEPT !.kind = "dists", !.dists = dists]
     ELSE [NoRet EXCEPT !.kind = "list", !.items = PySliceTo(result, topn)]

\* ---- doesnt_match -----------------------------------------------------------
\* the order of Python strings on the entities of the model
WordOrd == "" :> 0 @@ "a" :> 1 @@ "ab" :> 2 @@ "b" :> 3

doesnt_match(voc, m, norm, words) ==
  LET used_words == SelectSeq(words, LAMBDA w : w \in DOMAIN voc)
      terms == [k \in 1..Len(used_words) |-> TermW(used_words[k])]
      bad == FirstRaise(voc, m, norm, terms, 1)
      vs == [k \in 1..Len(terms) |-> Val(TermVec(voc, m, norm, terms[k]).vec)]
      msum == VecSum(vs)
      dists == [k \in 1..Len(vs) |-> <<dot(vs[k], msum), 1>>]
      first == CHOOSE k \in 1..Len(vs) : \A j \in 1..Len(vs) :
                 \/ ScoreCmp(dists[k], dists[j]) < 0
                 \/ ScoreCmp(dists[k], dists[j]) = 0 /\ WordOrd[used_words[k]] <= WordOrd[used_words[j]]
  IN IF used_words = <<>> THEN Raise("ValueError")
     ELSE IF bad.kind = "raise" THEN bad
     ELSE [NoRet EXCEPT !.kind = "word", !.word = Some(used_words[first])]

\* ---- the queries as operations ----------------------------------------------
SeqsUpTo2(S) == {<<>>} \cup {<<x>> : x \in S} \cup {<<x, y>> : x \in S, y \in S}
SeqsUpTo1(S) == {<<>>} \cup {<<x>> : x \in S}

WordTerms == {TermW(w) : w \in Entities}
CosmulPositive == SeqsUpTo1(WordTerms) \cup {<<TermW("a"), TermW("b")>>, <<TermV(RawVec)>>}
PositiveTerms == CosmulPositive \cup {<<TermW("a"), TermWW("b", 2)>>}
NegativeTerms == SeqsUpTo1({TermW("b")})
TopnDom == {None} \cup {Some(n) : n \in (0 - MaxTopn)..MaxTopn}
RestrictDom == {None} \cup {Some(n) : n \in 1..MaxRestrict}

\* the queries start with self.init_sims()
QueryInitSims ==
  /\ vectors_norm' = InitSimsNorm(vectors_norm, vectors, FALSE)
  /\ vectors' = InitSimsVectors(vectors, FALSE)
  /\ shared' = InitSimsShared(vectors_norm, shared, FALSE)
  /\ UNCHANGED <<vocab, index2word>>

MostSimilar ==
  \E positive \in PositiveTerms : \E negative \in NegativeTerms :
  \E topn \in TopnDom : \E restrict_vocab \in RestrictDom :
    /\ IF topn # None /\ Val(topn) < 1
       THEN UNCHANGED <<vocab, index2word, vectors, vectors_norm, shared>>
       ELSE QueryInitSims
    /\ ret' = most_similar(vocab, index2word, vectors, InitSimsNorm(vectors_norm, vectors, FALSE),
                           positive, negative, topn, restrict_vocab)
    /\ call' = [NoCall EXCEPT !.op = "most_similar", !.positive = positive, !.negative = negative,
                              !.topn = topn, !.restrict_vocab = restrict_vocab]
    /\ UNCHANGED <<subword, threads, docvecs>>

MostSimilarCosmul ==
  \E positive \in CosmulPositive : \E negative \in NegativeTerms : \E topn \in TopnDom :
    /\ QueryInitSims
    /\ ret' = most_similar_cosmul(vocab, index2word, vectors, InitSimsNorm(vectors_norm, vectors, FALSE),
                                  positive, negative, topn)
    /\ call' = [NoCall EXCEPT !.op = "most_similar_cosmul", !.positive = positive,
                              !.negative = negative, !.topn = topn]
    /\ UNCHANGED <<subword, threads, docvecs>>

DoesntMatch ==
  \E words \in SeqsUpTo2(Entities) :
    /\ QueryInitSims
    /\ ret' = doesnt_match(vocab, vectors, InitSimsNorm(vectors_norm, vectors, FALSE), words)
    /\ call' = [NoCall EXCEPT !.op = "doesnt_match", !.entities = words]
    /\ UNCHANGED <<subword, threads, docvecs>>

\* ---- cosine similarity and distance on the raw rows --------------------------
\* A cosine, and 1 - cosine, is a pair <<num, den>> with den > 0 that stands for
\* num / den; two of them compare as their cross product.
FracCmp(x, y) == x[1] * y[2] - y[1] * x[2]

\* cosine_similarities(vector_1, vectors_all)
cosine_similarities(vector_1, vectors_all) ==
  LET norm == Norm(vector_1)
      all_norms == [r \in 1..Len(vectors_all) |-> Norm(vectors_all[r])]
      dot_products == [r \in 1..Len(vectors_all) |-> dot(vectors_all[r], vector_1)]
  IN [r \in 1..Len(vectors_all) |-> <<dot_products[r], norm * all_norms[r]>>]

\* distances(word, other_words) reading the rows of the normalized cache when there is one
distances_cached(voc, m, norm, word, other_words) ==
  LET input_vector == word_vec(voc, m, norm, word, FALSE)
      rows == IF norm = None THEN m ELSE Val(norm)
      unknown == SelectSeq(other_words, LAMBDA w : w \notin DOMAIN voc)
      other_vectors == IF other_words = <<>> THEN rows
                       ELSE [k \in 1..Len(other_words) |-> rows[voc[other_words[k]].index + 1]]
      sims == cosine_similarities(Val(input_vector.vec), other_vectors)
  IN IF input_vector.kind = "raise" THEN input_vector
     ELSE IF unknown # <<>> THEN Raise("KeyError")
     ELSE IF other_words # <<>> /\ \E k \in 1..Len(other_words) : voc[other_words[k]].index + 1 > Len(rows)
     THEN Raise("IndexError")
     ELSE [NoRet EXCEPT !.kind = "dists",
                        !.dists = [k \in 1..Len(sims) |-> <<sims[k][2] - sims[k][1], sims[k][2]>>]]

\* distances(word, other_words)
distances(voc, m, norm, word, other_words) ==
  LET input_vector == word_vec(voc, m, norm, word, FALSE)
      unknown == SelectSeq(other_words, LAMBDA w : w \notin DOMAIN voc)
      other_vectors == IF other_words = <<>> THEN m
                       ELSE [k \in 1..Len(other_words) |-> m[voc[other_words[k]].index + 1]]
      sims == cosine_similarities(Val(input_vector.vec), other_vectors)
  IN IF input_vector.kind = "raise" THEN input_vector
     ELSE IF unknown # <<>> THEN Raise("KeyError")
     ELSE [NoRet EXCEPT !.kind = "dists",
                        !.dists = [k \in 1..Len(sims) |-> <<sims[k][2] - sims[k][1], sims[k][2]>>]]

\* similarity(w1, w2): dot(unitvec(self[w1]), unitvec(self[w2]))
similarity(voc, m, norm, w1, w2) ==
  LET v1 == word_vec(voc, m, norm, w1, FALSE)
      v2 == word_vec(voc, m, norm, w2, FALSE)
  IN IF v1.kind = "raise" THEN v1
     ELSE IF v2.kind = "raise" THEN v2
     ELSE [NoRet EXCEPT !.kind = "value",
                        !.value = Some(<<dot(Val(v1.vec), Val(v2.vec)), Norm(Val(v1.vec)) * Norm(Val(v2.vec))>>)]

\* distance(w1, w2): 1 - similarity(w1, w2)
distance(voc, m, norm, w1, w2) ==
  LET sim == similarity(voc, m, norm, w1, w2)
  IN IF sim.kind = "raise" THEN sim
     ELSE [sim EXCEPT !.value = Some(<<Val(sim.value)[2] - Val(sim.value)[1], Val(sim.value)[2]>>)]

\* closer_than(entity1, entity2)
closer_than(voc, i2e, m, norm, entity1, entity2) ==
  LET all_distances == distances(voc, m, norm, entity1, <<>>)
      e1_index == voc[entity1].index
      e2_index == voc[entity2].index
      d == all_distances.dists
      closer_node_indices == SelectSeq([k \in 1..Len(d) |-> k - 1],
                                       LAMBDA i : FracCmp(d[i + 1], d[e2_index + 1]) < 0)
      kept == SelectSeq(closer_node_indices, LAMBDA i : i # e1_index)
  IN IF all_distances.kind = "raise" THEN all_distances
     ELSE IF entity2 \notin DOMAIN voc THEN Raise("KeyError")
     ELSE [NoRet EXCEPT !.kind = "list", !.items = [k \in 1..Len(kept) |-> i2e[kept[k] + 1]]]

\* rank(entity1, entity2)
rank(voc, i2e, m, norm, entity1, entity2) ==
  LET closer == closer_than(voc, i2e, m, norm, entity1, entity2)
  IN IF closer.kind = "raise" THEN closer
     ELSE [NoRet EXCEPT !.kind = "value", !.value = Some(Len(closer.items) + 1)]

\* the operations that read the store and assign nothing
StoreUnchanged == UNCHANGED <<vocab, index2word, vectors, vectors_norm, shared, subword, threads, docvecs>>

Similarity ==
  \E w1 \in Entities : \E w2 \in Entities :
    /\ ret' = similarity(vocab, vectors, vectors_norm, w1, w2)
    /\ call' = [NoCall EXCEPT !.op = "similarity", !.entities = <<w1, w2>>]
    /\ StoreUnchanged

Distance ==
  \E w1 \in Entities : \E w2 \in Entities :
    /\ ret' = distance(vocab, vectors, vectors_norm, w1, w2)
    /\ call' = [NoCall EXCEPT !.op = "distance", !.entities = <<w1, w2>>]
    /\ StoreUnchanged

Distances ==
  \E word \in Entities : \E other_words \in SeqsUpTo1(Entities) :
    /\ ret' = distances(vocab, vectors, vectors_norm, word, other_words)
    /\ call' = [NoCall EXCEPT !.op = "distances", !.word = Some(word), !.entities = other_words]
    /\ StoreUnchanged

CloserThan ==
  \E entity1 \in Entities : \E entity2 \in Entities :
    /\ ret' = closer_than(vocab, index2word, vectors, vectors_norm, entity1, entity2)
    /\ call' = [NoCall EXCEPT !.op = "closer_than", !.entities = <<entity1, entity2>>]
    /\ StoreUnchanged

Rank ==
  \E entity1 \in Entities : \E entity2 \in Entities :
    /\ ret' = rank(vocab, index2word, vectors, vectors_norm, entity1, entity2)
    /\ call' = [NoCall EXCEPT !.op = "rank", !.entities = <<entity1, entity2>>]
    /\ StoreUnchanged

\* ---- FastTextKeyedVectors -------------------------------------------------
\* FastTextKeyedVectors(vector_size, min_n, max_n, bucket, compatible_hash): bucket is a
\* variable, the other parameters are those of the store of the model
min_n == 3
max_n == 4
compatible_hash == TRUE

\* the words of the subword store, as the characters they are made of
Chars == "" :> <<>> @@ "a" :> <<"a">> @@ "b" :> <<"b">> @@ "ab" :> <<"a", "b">>
FtWords == DOMAIN Chars

\* the matrix entries of the subword store: sums of up to four of them divide by 1..4
FtVecs == {<<12, 0>>, <<0, 24>>}

\* the n-grams of "<" + word + ">" of the lengths n..maxn, shorter ones first, each
\* length from left to right
RECURSIVE compute_ngrams(_, _, _)
compute_ngrams(extended, n, maxn) ==
  IF n > Min(Len(extended), maxn) THEN <<>>
  ELSE [i \in 1..(Len(extended) - n + 1) |-> SubSeq(extended, i, i + n - 1)]
         \o compute_ngrams(extended, n + 1, maxn)

CharCode == "<" :> 1 @@ "a" :> 2 @@ "b" :> 3 @@ ">" :> 4

\* the two hash functions of an n-gram: deterministic, of the characters and their places
ft_hash(ngram) == SumSeq([i \in 1..Len(ngram) |-> i * CharCode[ngram[i]]])
ft_hash_broken(ngram) == SumSeq([i \in 1..Len(ngram) |-> (i + 1) * CharCode[ngram[i]]])

\* ft_ngram_hashes(word, minn, maxn, num_buckets, fb_compatible): one bucket index per
\* n-gram, in n-gram order, repeats kept
ft_ngram_hashes(word, minn, maxn, num_buckets, fb_compatible) ==
  LET ngrams == compute_ngrams(<<"<">> \o Chars[word] \o <<">">>, minn, maxn)
  IN [k \in 1..Len(ngrams) |->
        (IF fb_compatible THEN ft_hash(ngrams[k]) ELSE ft_hash_broken(ngrams[k])) % num_buckets]

\* the sum of the bucket rows with every bucket counted once
BucketSumOnce(ngram_weights, ngram_hashes) ==
  VecSum([k \in 1..Len(ngram_hashes) |->
            IF \E j \in 1..(k - 1) : ngram_hashes[j] = ngram_hashes[k]
            THEN [i \in 1..vector_size |-> 0]
            ELSE ngram_weights[ngram_hashes[k] + 1]])

\* word_vec += ngram_weights[nh] for nh in ngram_hashes
BucketSum(ngram_weights, ngram_hashes) ==
  VecSum([k \in 1..Len(ngram_hashes) |-> ngram_weights[ngram_hashes[k] + 1]])

\* vector / n, entry by entry
DivVec(v, n) == [i \in 1..vector_size |-> v[i] \div n]

\* FastTextKeyedVectors.word_vec that fails on a word without n-grams
ft_word_vec_strict(voc, m, norm, ngrams, ngrams_norm, bkt, word, use_norm) ==
  IF word \in DOMAIN voc THEN word_vec(voc, m, norm, word, use_norm)
  ELSE IF bkt = 0 THEN Raise("KeyError")
  ELSE IF ngrams = None THEN Raise("AttributeError")
  ELSE LET ngram_weights == IF use_norm THEN ngrams_norm ELSE ngrams
           ngram_hashes == ft_ngram_hashes(word, min_n, max_n, bkt, compatible_hash)
       IN IF Len(ngram_hashes) = 0 THEN Raise("KeyError")
          ELSE IF ngram_weights = None THEN Raise("TypeError")
          ELSE IF \E k \in 1..Len(ngram_hashes) : ngram_hashes[k] + 1 > Len(Val(ngram_weights))
               THEN Raise("IndexError")
          ELSE [NoRet EXCEPT !.kind = "vector",
                             !.vec = Some(DivVec(BucketSum(Val(ngram_weights), ngram_hashes),
                                                 Len(ngram_hashes)))]

\* FastTextKeyedVectors.word_vec(word, use_norm)
ft_word_vec(voc, m, norm, ngrams, ngrams_norm, bkt, word, use_norm) ==
  IF word \in DOMAIN voc THEN word_vec(voc, m, norm, word, use_norm)
  ELSE IF bkt = 0 THEN Raise("KeyError")
  ELSE IF ngrams = None THEN Raise("AttributeError")
  ELSE LET ngram_weights == IF use_norm THEN ngrams_norm ELSE ngrams
           ngram_hashes == ft_ngram_hashes(word, min_n, max_n, bkt, compatible_hash)
       IN IF Len(ngram_hashes) = 0
          THEN [NoRet EXCEPT !.kind = "vector", !.vec = Some([i \in 1..vector_size |-> 0])]
          ELSE IF ngram_weights = None THEN Raise("TypeError")
          ELSE IF \E k \in 1..Len(ngram_hashes) : ngram_hashes[k] + 1 > Len(Val(ngram_weights))
               THEN Raise("IndexError")
          ELSE [NoRet EXCEPT !.kind = "vector",
                             !.vec = Some(DivVec(BucketSum(Val(ngram_weights), ngram_hashes),
                                                 Len(ngram_hashes)))]

\* FastTextKeyedVectors.__contains__(word)
ft_contains(voc, word) == TRUE

\* adjust_vectors whose rows are the mean of the bucket rows alone
adjust_vectors_no_base(voc, m, vocab_m, ngrams, bkt) ==
  IF bkt = 0 THEN m
  ELSE [r \in 1..Len(m) |->
          IF \E w \in DOMAIN voc : voc[w].index = r - 1
          THEN LET w == CHOOSE x \in DOMAIN voc : voc[x].index = r - 1
                   ngram_hashes == ft_ngram_hashes(w, min_n, max_n, bkt, compatible_hash)
               IN DivVec(BucketSum(ngrams, ngram_hashes), Len(ngram_hashes) + 1)
          ELSE m[r]]

\* adjust_vectors(): the matrix `vectors` after the loop over the vocabulary
adjust_vectors(voc, m, vocab_m, ngrams, bkt) ==
  IF bkt = 0 THEN m
  ELSE [r \in 1..Len(m) |->
          IF \E w \in DOMAIN voc : voc[w].index = r - 1
          THEN LET w == CHOOSE x \in DOMAIN voc : voc[x].index = r - 1
                   ngram_hashes == ft_ngram_hashes(w, min_n, max_n, bkt, compatible_hash)
                   word_vec_sum == VecSum(<<vocab_m[voc[w].index + 1], BucketSum(ngrams, ngram_hashes)>>)
               IN DivVec(word_vec_sum, Len(ngram_hashes) + 1)
          ELSE m[r]]

\* the vocabularies a loader prepares before init_post_load, as entity lists
FtVocabs == {<<>>, <<"a">>, <<"a", "ab">>}

\* the matrices a loader hands to init_post_load
FtMatrices == UNION {[1..k -> FtVecs] : k \in 0..(MaxBucket + 2)}

\* the store after FastTextKeyedVectors(...) and the loader's preparation of the vocabulary
InitFastText ==
  \E i2w \in FtVocabs : \E b \in 0..MaxBucket :
    /\ vocab = [w \in {i2w[k] : k \in 1..Len(i2w)} |-> Vocab((CHOOSE k \in 1..Len(i2w) : i2w[k] = w) - 1)]
    /\ index2word = i2w
    /\ vectors = <<>>
    /\ vectors_norm = None
    /\ shared = FALSE
    /\ call = NoCall
    /\ ret = NoRet
    /\ bucket = b
    /\ vectors_vocab = None
    /\ vectors_ngrams = None
    /\ vectors_ngrams_norm = None
    /\ hash2index = None
    /\ rand_state = None
    /\ threads = NoThreads
    /\ docvecs = NoDocvecs

\* init_post_load(vectors)
DoInitPostLoad(imported) ==
  LET vocab_words == Cardinality(DOMAIN vocab)
      words_m == SubSeq(imported, 1, vocab_words)
      ngrams_m == SubSeq(imported, vocab_words + 1, Len(imported))
  IN /\ call' = [NoCall EXCEPT !.op = "init_post_load"]
     /\ IF Len(imported) # vocab_words + bucket
        THEN /\ ret' = Raise("AssertionError")
             /\ UNCHANGED <<vectors, vectors_vocab, vectors_ngrams>>
        ELSE /\ ret' = NoRet
             /\ vectors' = adjust_vectors(vocab, words_m, words_m, ngrams_m, bucket)
             /\ vectors_vocab' = Some(words_m)
             /\ vectors_ngrams' = Some(ngrams_m)
     /\ UNCHANGED <<vocab, index2word, vectors_norm, shared, bucket, vectors_ngrams_norm,
                    hash2index, rand_state, threads, docvecs>>

InitPostLoad == \E imported \in FtMatrices : DoInitPostLoad(imported)

\* adjust_vectors()
AdjustVectors ==
  /\ call' = [NoCall EXCEPT !.op = "adjust_vectors"]
  /\ IF bucket # 0 /\ DOMAIN vocab # {} /\ vectors_vocab = None
     THEN ret' = Raise("TypeError") /\ UNCHANGED vectors
     ELSE /\ ret' = NoRet
          /\ vectors' = IF bucket = 0 THEN vectors
                        ELSE adjust_vectors(vocab, vectors, Val(vectors_vocab), Val(vectors_ngrams), bucket)
  /\ UNCHANGED <<vocab, index2word, vectors_norm, shared, subword, threads, docvecs>>

\* word_vec(word, use_norm) of the subword store
FtWordVec ==
  \E word \in FtWords : \E use_norm \in BOOLEAN :
    /\ ret' = ft_word_vec(vocab, vectors, vectors_norm, vectors_ngrams, vectors_ngrams_norm,
                          bucket, word, use_norm)
    /\ call' = [NoCall EXCEPT !.op = "ft_word_vec", !.word = Some(word), !.use_norm = use_norm]
    /\ StoreUnchanged

\* word in store
FtContains ==
  \E word \in FtWords :
    /\ ret' = [NoRet EXCEPT !.kind = "value", !.value = Some(ft_contains(vocab, word))]
    /\ call' = [NoCall EXCEPT !.op = "ft_contains", !.word = Some(word)]
    /\ StoreUnchanged

\* ---- the legacy bucket table and its expansion ------------------------------
\* np.random after seed(seed) is the pair of the seed and the number of rows drawn since;
\* row k of a seeded generator has its entries in [-1 / vector_size, 1 / vector_size],
\* which is -2..2 in fixed-point units
RandRow(seed, k) == <<((seed + k) % 5) - 2, ((seed + 2 * k) % 5) - 2>>

\* rand.uniform(low, high, (new_rows, columns))
uniform(rand, new_rows) == [k \in 1..new_rows |-> RandRow(rand.seed, rand.drawn + k)]

\* _pad_random(m, new_rows, rand)
_pad_random(m, new_rows, rand) == m \o uniform(rand, new_rows)

\* for h, i in swap.items(): assert h != i; m[[h, i]] = m[[i, h]]
RECURSIVE SwapRows(_, _, _)
SwapRows(m, swap, k) ==
  IF k > Len(swap) THEN [kind |-> "table", err |-> "", m |-> m, swaps |-> <<>>]
  ELSE LET h == swap[k][1]
           i == swap[k][2]
           InRange(j) == -Len(m) <= j /\ j < Len(m)
           Row(j) == IF j < 0 THEN j + Len(m) + 1 ELSE j + 1
       IN IF h = i THEN [kind |-> "raise", err |-> "AssertionError", m |-> m, swaps |-> <<>>]
          ELSE IF ~InRange(h) \/ ~InRange(i)
               THEN [kind |-> "raise", err |-> "IndexError", m |-> m, swaps |-> <<>>]
          ELSE LET rest == SwapRows([m EXCEPT ![Row(h)] = m[Row(i)], ![Row(i)] = m[Row(h)]], swap, k + 1)
               IN [rest EXCEPT !.swaps = <<swap[k]>> \o rest.swaps]

\* _unpack that pads and swaps whatever the number of rows
_unpack_always(m, num_rows, hash2index_items, seed, rand) ==
  LET orig_rows == Len(m)
      seeded == Some([seed |-> seed, drawn |-> 0])
      padded == _pad_random(m, num_rows - orig_rows, Val(seeded))
      swap == SelectSeq(hash2index_items, LAMBDA p : p[1] < p[2] /\ p[2] < orig_rows)
                \o SelectSeq(hash2index_items, LAMBDA p : p[1] >= orig_rows)
      swapped == SwapRows(padded, swap, 1)
  IN IF num_rows < orig_rows
     THEN [kind |-> "raise", err |-> "AssertionError", m |-> m, rand |-> rand, swaps |-> <<>>]
     ELSE [kind |-> swapped.kind, err |-> swapped.err, m |-> swapped.m,
           rand |-> Some([seed |-> seed, drawn |-> num_rows - orig_rows]), swaps |-> swapped.swaps]

\* _unpack(m, num_rows, hash2index, seed): the table returned and np.random afterwards;
\* hash2index_items is hash2index.items(), the (hash, row) pairs in the order of the dict
_unpack(m, num_rows, hash2index_items, seed, rand) ==
  LET orig_rows == Len(m)
      seeded == Some([seed |-> seed, drawn |-> 0])
      padded == _pad_random(m, num_rows - orig_rows, Val(seeded))
      swap == SelectSeq(hash2index_items, LAMBDA p : p[1] < p[2] /\ p[2] < orig_rows)
                \o SelectSeq(hash2index_items, LAMBDA p : p[1] >= orig_rows)
      swapped == SwapRows(padded, swap, 1)
  IN IF orig_rows = num_rows THEN [kind |-> "table", err |-> "", m |-> m, rand |-> rand, swaps |-> <<>>]
     ELSE IF num_rows < orig_rows
          THEN [kind |-> "raise", err |-> "AssertionError", m |-> m, rand |-> rand, swaps |-> <<>>]
     ELSE [kind |-> swapped.kind, err |-> swapped.err, m |-> swapped.m,
           rand |-> Some([seed |-> seed, drawn |-> num_rows - orig_rows]), swaps |-> swapped.swaps]

\* the sequences of r distinct elements of S
RECURSIVE InjSeqs(_, _)
InjSeqs(S, r) ==
  IF r = 0 THEN {<<>>}
  ELSE UNION {{Append(q, x) : x \in S \ {q[k] : k \in 1..Len(q)}} : q \in InjSeqs(S, r - 1)}

\* a compact table of r rows, each row unlike the others and unlike a generated row
CompactTable(r) == [j \in 1..r |-> <<12 * j, 12>>]

\* a legacy model as unpickled by load(): bucket, the compact table and hash2index, a
\* one-to-one map from hashes below bucket onto the rows of the table, in any dict order
InitLegacy ==
  \E b \in 1..MaxLegacyBucket : \E r \in 0..b :
  \E hs \in InjSeqs(0..(b - 1), r) : \E rs \in InjSeqs(0..(r - 1), r) :
    /\ vocab = [e \in {} |-> Vocab(0)]
    /\ index2word = <<>>
    /\ vectors = <<>>
    /\ vectors_norm = None
    /\ shared = FALSE
    /\ call = NoCall
    /\ ret = NoRet
    /\ bucket = b
    /\ vectors_vocab = None
    /\ vectors_ngrams = Some(CompactTable(r))
    /\ vectors_ngrams_norm = None
    /\ hash2index = Some([k \in 1..r |-> <<hs[k], rs[k]>>])
    /\ rand_state = None
    /\ threads = NoThreads
    /\ docvecs = NoDocvecs

\* _rollback_optimization(kv) without its `del kv.hash2index`
RollbackOptimizationKeep ==
  /\ hash2index # None
  /\ LET unpacked == _unpack(Val(vectors_ngrams), bucket, Val(hash2index), 1, rand_state)
     IN /\ rand_state' = unpacked.rand
        /\ IF unpacked.kind = "raise"
           THEN ret' = Raise(unpacked.err) /\ UNCHANGED vectors_ngrams
           ELSE ret' = NoRet /\ vectors_ngrams' = Some(unpacked.m)
  /\ call' = [NoCall EXCEPT !.op = "rollback_optimization"]
  /\ UNCHANGED <<vocab, index2word, vectors, vectors_norm, shared, bucket, vectors_vocab,
                 vectors_ngrams_norm, hash2index, threads, docvecs>>

\* _rollback_optimization(kv), as load() runs it on a model that has hash2index
RollbackOptimization ==
  /\ hash2index # None
  /\ LET unpacked == _unpack(Val(vectors_ngrams), bucket, Val(hash2index), 1, rand_state)
     IN /\ rand_state' = unpacked.rand
        /\ IF unpacked.kind = "raise"
           THEN ret' = Raise(unpacked.err) /\ UNCHANGED <<vectors_ngrams, hash2index>>
           ELSE /\ ret' = NoRet
                /\ vectors_ngrams' = Some(unpacked.m)
                /\ hash2index' = None
  /\ call' = [NoCall EXCEPT !.op = "rollback_optimization"]
  /\ UNCHANGED <<vocab, index2word, vectors, vectors_norm, shared, bucket, vectors_vocab,
                 vectors_ngrams_norm, threads, docvecs>>

\* weights that do not fit k entities: another number of rows, or rows of another width
IllWeights(k) ==
  UNION {[1..j -> InVecs] : j \in (0..MaxBatch) \ {k}} \cup [1..k -> {<<5>>}]

\* add(entities, weights) with weights that do not fit: the loop of lines 298-302 has run
\* when weights[~in_vocab_mask] or vstack raises at line 305
DoAddIllShaped(entities, weights, cap) ==
  /\ Len(AddIndex2Entity(vocab, index2word, entities)) <= cap
  /\ vocab' = AddVocab(vocab, entities)
  /\ index2word' = AddIndex2Entity(vocab, index2word, entities)
  /\ ret' = IF Len(weights) # Len(entities) THEN Raise("IndexError") ELSE Raise("ValueError")
  /\ call' = [NoCall EXCEPT !.op = "add", !.entities = entities]
  /\ UNCHANGED <<vectors, vectors_norm, shared, subword, threads, docvecs>>

AddIllShaped(cap) ==
  \E k \in 1..MaxBatch : \E entities \in [1..k -> Entities] : \E weights \in IllWeights(k) :
    DoAddIllShaped(entities, weights, cap)

\* ---- several threads querying one store --------------------------------------------
\* a loaded subword store: the vocabulary of the file, the matrix set by init_post_load,
\* and the normalized caches either not built yet or built by an earlier init_sims()
InitConcurrent ==
  \E ngrams_m \in [1..MaxBucket -> FtVecs] : \E built \in BOOLEAN :
    LET i2w == <<"a", "ab">>
        voc == [w \in {"a", "ab"} |-> Vocab(IF w = "a" THEN 0 ELSE 1)]
        words_m == <<<<12, 0>>, <<0, 24>>>>
        m == adjust_vectors(voc, words_m, words_m, ngrams_m, MaxBucket)
    IN /\ vocab = voc
       /\ index2word = i2w
       /\ vectors = m
       /\ vectors_norm = IF built THEN Some(l2_norm(m)) ELSE None
       /\ shared = FALSE
       /\ call = NoCall
       /\ ret = NoRet
       /\ bucket = MaxBucket
       /\ vectors_vocab = Some(words_m)
       /\ vectors_ngrams = Some(ngrams_m)
       /\ vectors_ngrams_norm = IF built THEN Some(l2_norm(ngrams_m)) ELSE None
       /\ hash2index = None
       /\ rand_state = None
       /\ threads = NoThreads
       /\ docvecs = NoDocvecs

\* the read-only calls a thread makes: rankings and similarities over words of the
\* vocabulary, get_vector of any word (a word outside the vocabulary is composed)
Queries ==
  {[NoCall EXCEPT !.op = o, !.positive = <<TermW(index2word[1])>>, !.topn = Some(MaxTopn)] :
     o \in {"most_similar", "most_similar_cosmul"}}
  \cup {[NoCall EXCEPT !.op = "doesnt_match", !.entities = index2word]}
  \cup {[NoCall EXCEPT !.op = o, !.entities = index2word] : o \in {"similarity", "distance"}}
  \cup {[NoCall EXCEPT !.op = "get_vector", !.word = Some(w)] : w \in FtWords}

\* most_similar, most_similar_cosmul and doesnt_match begin with self.init_sims()
CallsInitSims(q) == q.op \in {"most_similar", "most_similar_cosmul", "doesnt_match"}

\* what the call q returns when it reads the caches norm and ngrams_norm
Answer(q, norm, ngrams_norm) ==
  CASE q.op = "most_similar" ->
         most_similar(vocab, index2word, vectors, norm, q.positive, q.negative, q.topn, q.restrict_vocab)
    [] q.op = "most_similar_cosmul" ->
         most_similar_cosmul(vocab, index2word, vectors, norm, q.positive, q.negative, q.topn)
    [] q.op = "doesnt_match" -> doesnt_match(vocab, vectors, norm, q.entities)
    [] q.op = "similarity" -> similarity(vocab, vectors, norm, q.entities[1], q.entities[2])
    [] q.op = "distance" -> distance(vocab, vectors, norm, q.entities[1], q.entities[2])
    [] OTHER -> ft_word_vec(vocab, vectors, norm, vectors_ngrams, ngrams_norm, bucket,
                            Val(q.word), FALSE)

\* a thread enters a call
ThreadStart(t) ==
  /\ threads[t].pc = "idle"
  /\ \E q \in Queries :
       threads' = [threads EXCEPT ![t] = [pc |-> IF CallsInitSims(q) THEN "check_norm" ELSE "answer",
                                          q |-> q, norm0 |-> vectors_norm,
                                          ngrams_norm0 |-> vectors_ngrams_norm,
                                          ok_vocab |-> None, saved |-> None]]
  /\ UNCHANGED <<vocab, index2word, vectors, vectors_norm, shared, call, ret, subword, docvecs>>

\* init_sims that takes the cache for built without looking
ThreadCheckNormBlind(t) ==
  /\ threads[t].pc = "check_norm"
  /\ threads' = [threads EXCEPT ![t].pc = "check_ngrams"]
  /\ UNCHANGED <<vocab, index2word, vectors, vectors_norm, shared, call, ret, subword, docvecs>>

\* init_sims: if getattr(self, 'vectors_norm', None) is None
ThreadCheckNorm(t) ==
  /\ threads[t].pc = "check_norm"
  /\ threads' = [threads EXCEPT ![t].pc = IF vectors_norm = None THEN "build_norm" ELSE "check_ngrams"]
  /\ UNCHANGED <<vocab, index2word, vectors, vectors_norm, shared, call, ret, subword, docvecs>>

\* init_sims: self.vectors_norm = _l2_norm(self.vectors, replace=False)
ThreadBuildNorm(t) ==
  /\ threads[t].pc = "build_norm"
  /\ vectors_norm' = Some(l2_norm(vectors))
  /\ threads' = [threads EXCEPT ![t].pc = "check_ngrams"]
  /\ UNCHANGED <<vocab, index2word, vectors, shared, call, ret, subword, docvecs>>

\* FastTextKeyedVectors.init_sims: if getattr(self, 'vectors_ngrams_norm', None) is None
ThreadCheckNgrams(t) ==
  /\ threads[t].pc = "check_ngrams"
  /\ threads' = [threads EXCEPT ![t].pc = IF vectors_ngrams_norm = None THEN "build_ngrams" ELSE "answer"]
  /\ UNCHANGED <<vocab, index2word, vectors, vectors_norm, shared, call, ret, subword, docvecs>>

\* FastTextKeyedVectors.init_sims: self.vectors_ngrams_norm = _l2_norm(self.vectors_ngrams, replace=False)
ThreadBuildNgrams(t) ==
  /\ threads[t].pc = "build_ngrams"
  /\ vectors_ngrams_norm' = Some(l2_norm(Val(vectors_ngrams)))
  /\ threads' = [threads EXCEPT ![t].pc = "answer"]
  /\ UNCHANGED <<vocab, index2word, vectors, vectors_norm, shared, call, ret, bucket,
                 vectors_vocab, vectors_ngrams, hash2index, rand_state, docvecs>>

\* the rest of the call: it reads the store and returns
ThreadAnswer(t) ==
  /\ threads[t].pc = "answer"
  /\ ret' = Answer(threads[t].q, vectors_norm, vectors_ngrams_norm)
  /\ call' = threads[t].q
  /\ threads' = [threads EXCEPT ![t] = IdleThread]
  /\ UNCHANGED <<vocab, index2word, vectors, vectors_norm, shared, subword, docvecs>>

\* ---- evaluate_word_analogies, accuracy --------------------------------------------
\* str.upper on the entities of the model
Upper == "a" :> "A" @@ "b" :> "B"

\* ok_vocab of lines 1075-1076: the first restrict_vocab words with their entries, under
\* upper-case keys when case_insensitive
OkVocab(voc, i2w, restrict_vocab, case_insensitive) ==
  LET words == RowsOfSeq(PySliceTo(i2w, Some(restrict_vocab)))
  IN IF case_insensitive
     THEN [k \in {Upper[w] : w \in words} |-> voc[CHOOSE w \in words : Upper[w] = k]]
     ELSE [w \in words |-> voc[w]]

\* restrict_vocab of an evaluation: the first word only, or the default of 300000 words
EvalRestricts == {1, 300000}

\* a store of two words, its cache not built yet or built before the second word was added
InitEval ==
  \E weights \in {<<<<10, 0>>, <<3, 4>>>>} : \E stale \in BOOLEAN :
    /\ vocab = [w \in {"a", "b"} |-> Vocab(IF w = "a" THEN 0 ELSE 1)]
    /\ index2word = <<"a", "b">>
    /\ vectors = weights
    /\ vectors_norm = IF stale THEN Some(l2_norm(SubSeq(weights, 1, 1))) ELSE None
    /\ shared = FALSE
    /\ call = NoCall
    /\ ret = NoRet
    /\ bucket = 0
    /\ vectors_vocab = None
    /\ vectors_ngrams = None
    /\ vectors_ngrams_norm = None
    /\ hash2index = None
    /\ rand_state = None
    /\ threads = NoThreads
    /\ docvecs = NoDocvecs

\* the head of an evaluation: ok_vocab is built from self.vocab, then a line a b c expected
\* of words of ok_vocab is read from the file
EvalStart(t) ==
  /\ threads[t].pc = "idle"
  /\ \E op \in {"evaluate_word_analogies", "accuracy"} :
     \E restrict_vocab \in EvalRestricts : \E case_insensitive \in BOOLEAN :
       IF \E w \in RowsOfSeq(PySliceTo(index2word, Some(restrict_vocab))) : w \notin DOMAIN vocab
       THEN /\ ret' = Raise("KeyError")
            /\ call' = [NoCall EXCEPT !.op = op, !.restrict_vocab = Some(restrict_vocab)]
            /\ UNCHANGED threads
       ELSE LET ok == OkVocab(vocab, index2word, restrict_vocab, case_insensitive)
            IN /\ \E a \in DOMAIN ok : \E b \in {Upper["a"], "a"} \cap DOMAIN ok :
                    threads' = [threads EXCEPT ![t] =
                      [IdleThread EXCEPT !.pc = "eval_swap", !.ok_vocab = Some(ok),
                         !.q = [NoCall EXCEPT !.op = op, !.positive = <<TermW(b), TermW(b)>>,
                                              !.negative = <<TermW(a)>>,
                                              !.topn = IF op = "accuracy" THEN Some(0) ELSE Some(5),
                                              !.restrict_vocab = Some(restrict_vocab)]]]
               /\ UNCHANGED <<call, ret>>
  /\ UNCHANGED <<vocab, index2word, vectors, vectors_norm, shared, subword, docvecs>>

\* original_vocab = self.vocab; self.vocab = ok_vocab
EvalSwap(t) ==
  /\ threads[t].pc = "eval_swap"
  /\ vocab' = Val(threads[t].ok_vocab)
  /\ threads' = [threads EXCEPT ![t].pc = "eval_query", ![t].saved = Some(vocab)]
  /\ UNCHANGED <<index2word, vectors, vectors_norm, shared, call, ret, subword, docvecs>>

\* sims = self.most_similar(positive=[b, c], negative=[a], topn=5, restrict_vocab=restrict_vocab);
\* accuracy passes topn=False, which most_similar compares as the number 0
EvalQuery(t) ==
  /\ threads[t].pc = "eval_query"
  /\ LET q == threads[t].q
         early == Val(q.topn) < 1
         norm == IF early THEN vectors_norm ELSE InitSimsNorm(vectors_norm, vectors, FALSE)
         sims == most_similar(vocab, index2word, vectors, norm, q.positive, q.negative,
                              q.topn, q.restrict_vocab)
     IN /\ vectors_norm' = norm
        /\ IF sims.kind = "raise"
           THEN /\ ret' = sims
                /\ call' = q
                /\ threads' = [threads EXCEPT ![t] = IdleThread]
           ELSE /\ threads' = [threads EXCEPT ![t].pc = "eval_restore"]
                /\ UNCHANGED <<call, ret>>
  /\ UNCHANGED <<vocab, index2word, vectors, shared, subword, docvecs>>

\* self.vocab = original_vocab, and the rest of the evaluation
EvalRestore(t) ==
  /\ threads[t].pc = "eval_restore"
  /\ vocab' = Val(threads[t].saved)
  /\ call' = threads[t].q
  /\ ret' = NoRet
  /\ threads' = [threads EXCEPT ![t] = IdleThread]
  /\ UNCHANGED <<index2word, vectors, vectors_norm, shared, subword, docvecs>>

\* ---- Doc2VecKeyedVectors ------------------------------------------------------------
\* np_memmap(path, dtype=REAL, mode='w+', shape=shape): a new file of that shape, all zeros
np_memmap(rows) == [r \in 1..rows |-> [i \in 1..vector_size |-> 0]]

\* the cache that Doc2VecKeyedVectors.init_sims(replace) leaves in a store d
doc_init_sims(d, replace) ==
  IF d.vectors_docs_norm = None \/ replace
  THEN IF ~replace /\ d.mapfile_path # None
       THEN Some(np_memmap(Len(d.vectors_docs)))
       ELSE Some(l2_norm(d.vectors_docs))
  ELSE d.vectors_docs_norm

\* matutils.unitvec: the vector over its length, the vector itself when its length is zero
unitvec(v) == IF dot(v, v) = 0 THEN v ELSE UnitRow(v)

\* a trained store of document vectors, with or without a mapfile
InitDoc ==
  \E k \in 1..MaxDocs : \E docs \in [1..k -> InVecs] : \E path \in {None, Some("mapfile")} :
    /\ vocab = [e \in {} |-> Vocab(0)]
    /\ index2word = <<>>
    /\ vectors = <<>>
    /\ vectors_norm = None
    /\ shared = FALSE
    /\ call = NoCall
    /\ ret = NoRet
    /\ bucket = 0
    /\ vectors_vocab = None
    /\ vectors_ngrams = None
    /\ vectors_ngrams_norm = None
    /\ hash2index = None
    /\ rand_state = None
    /\ threads = NoThreads
    /\ docvecs = [vectors_docs |-> docs, vectors_docs_norm |-> None, mapfile_path |-> path]

\* Doc2VecKeyedVectors.init_sims(replace)
DocInitSims ==
  \E replace \in BOOLEAN :
    /\ docvecs' = [docvecs EXCEPT !.vectors_docs_norm = doc_init_sims(docvecs, replace),
                                  !.vectors_docs = IF replace THEN l2_norm(@) ELSE @]
    /\ call' = [NoCall EXCEPT !.op = "doc_init_sims", !.replace = replace]
    /\ ret' = NoRet
    /\ UNCHANGED <<vocab, index2word, vectors, vectors_norm, shared, subword, threads>>

\* Doc2VecKeyedVectors.most_similar(positive=[doc], topn=False) for the index doc of a
\* trained document: the array dists
DocMostSimilar ==
  \E doc \in 0..(Len(docvecs.vectors_docs) - 1) :
    LET norm == Val(doc_init_sims(docvecs, FALSE))
        mean == unitvec(norm[doc + 1])
    IN /\ docvecs' = [docvecs EXCEPT !.vectors_docs_norm = Some(norm)]
       /\ ret' = [NoRet EXCEPT !.kind = "dists", !.dists = [r \in 1..Len(norm) |-> <<dot(norm[r], mean), 1>>]]
       /\ call' = [NoCall EXCEPT !.op = "doc_most_similar", !.topn = Some(doc)]
       /\ UNCHANGED <<vocab, index2word, vectors, vectors_norm, shared, subword, threads>>

Next == Add(MaxRows) \/ SetItem(MaxRows) \/ InitSims \/ GetVector

Spec == Init /\ [][Next]_vars

\* the store with its queries, on a smaller matrix
NextQuery ==
  \/ Add(MaxQueryRows)
  \/ SetItem(MaxQueryRows)
  \/ InitSims
  \/ MostSimilar
  \/ MostSimilarCosmul
  \/ DoesntMatch

SpecQuery == Init /\ [][NextQuery]_vars

\* the store with closer_than and rank
NextRank == Add(MaxRows) \/ CloserThan \/ Rank

SpecRank == Init /\ [][NextRank]_vars

\* the store, its cache and the pairwise distances
NextDist == Add(MaxQueryRows) \/ InitSims \/ Similarity \/ Distance \/ Distances

SpecDist == Init /\ [][NextDist]_vars

\* the subword store: load, recomputation of the rows, lookup
NextFastText == InitPostLoad \/ AdjustVectors \/ FtWordVec \/ FtContains

SpecFastText == InitFastText /\ [][NextFastText]_vars

\* the load of a legacy model: the expansion of its compact bucket table
\* a persisted legacy model whose table or map may be damaged: any number of rows up to
\* bucket + 1, any map of distinct hashes (the keys of a dict) to rows, in or out of range
CorruptMaps(b, r) ==
  UNION {{[k \in 1..n |-> <<hs[k], rs[k]>>] : hs \in InjSeqs(0..b, n), rs \in [1..n -> -1..r]} :
         n \in 0..MaxCorruptPairs}

InitCorrupt ==
  \E b \in 1..MaxCorruptBucket : \E r \in 0..(b + 1) : \E items \in CorruptMaps(b, r) :
    /\ vocab = [e \in {} |-> Vocab(0)]
    /\ index2word = <<>>
    /\ vectors = <<>>
    /\ vectors_norm = None
    /\ shared = FALSE
    /\ call = NoCall
    /\ ret = NoRet
    /\ bucket = b
    /\ vectors_vocab = None
    /\ vectors_ngrams = Some(CompactTable(r))
    /\ vectors_ngrams_norm = None
    /\ hash2index = Some(items)
    /\ rand_state = None
    /\ threads = NoThreads
    /\ docvecs = NoDocvecs

\* for src, dst in hash2index.items(): n[src] = m[dst]
RECURSIVE CopyRows(_, _, _, _)
CopyRows(n, m, items, k) ==
  IF k > Len(items) THEN [kind |-> "table", err |-> "", m |-> n]
  ELSE LET src == items[k][1]
           dst == items[k][2]
           Row(t, j) == IF j < 0 THEN j + Len(t) + 1 ELSE j + 1
       IN IF dst < -Len(m) \/ dst >= Len(m) \/ src < -Len(n) \/ src >= Len(n)
          THEN [kind |-> "raise", err |-> "IndexError", m |-> n]
          ELSE CopyRows([n EXCEPT ![Row(n, src)] = m[Row(m, dst)]], m, items, k + 1)

\* _unpack_copy(m, num_rows, hash2index, seed): the table returned and np.random afterwards
_unpack_copy(m, num_rows, hash2index_items, seed, rand) ==
  LET rows == Len(m)
      seeded == Some([seed |-> seed, drawn |-> 0])
      n == _pad_random(<<>>, num_rows, Val(seeded))
      copied == CopyRows(n, m, hash2index_items, 1)
  IN IF rows = num_rows THEN [kind |-> "table", err |-> "", m |-> m, rand |-> rand]
     ELSE IF num_rows < rows THEN [kind |-> "raise", err |-> "AssertionError", m |-> m, rand |-> rand]
     ELSE [kind |-> copied.kind, err |-> copied.err,
           m |-> copied.m, rand |-> Some([seed |-> seed, drawn |-> num_rows])]

\* _unpack_copy(kv.vectors_ngrams, kv.bucket, kv.hash2index): the store is not touched
UnpackCopy ==
  /\ hash2index # None
  /\ LET unpacked == _unpack_copy(Val(vectors_ngrams), bucket, Val(hash2index), 1, rand_state)
     IN /\ rand_state' = unpacked.rand
        /\ ret' = IF unpacked.kind = "raise" THEN Raise(unpacked.err)
                  ELSE [NoRet EXCEPT !.kind = "table", !.value = Some(unpacked.m)]
  /\ call' = [NoCall EXCEPT !.op = "unpack_copy"]
  /\ UNCHANGED <<vocab, index2word, vectors, vectors_norm, shared, bucket, vectors_vocab,
                 vectors_ngrams, vectors_ngrams_norm, hash2index, threads, docvecs>>

\* FastTextKeyedVectors.load(fname): the unpickled model is expanded when it carries hash2index
LoadFastText ==
  /\ call.op = "init"
  /\ IF hash2index # None
     THEN LET unpacked == _unpack(Val(vectors_ngrams), bucket, Val(hash2index), 1, rand_state)
          IN /\ rand_state' = unpacked.rand
             /\ IF unpacked.kind = "raise"
                THEN ret' = Raise(unpacked.err) /\ UNCHANGED <<vectors_ngrams, hash2index>>
                ELSE /\ ret' = NoRet
                     /\ vectors_ngrams' = Some(unpacked.m)
                     /\ hash2index' = None
     ELSE ret' = NoRet /\ UNCHANGED <<vectors_ngrams, hash2index, rand_state>>
  /\ call' = [NoCall EXCEPT !.op = "load"]
  /\ UNCHANGED <<vocab, index2word, vectors, vectors_norm, shared, bucket, vectors_vocab,
                 vectors_ngrams_norm, threads, docvecs>>

\* Word2VecKeyedVectors.load(fname), also reached as KeyedVectors.load: returns the unpickled
\* model as it is, a FastTextKeyedVectors included
LoadGeneric ==
  /\ call.op = "init"
  /\ ret' = NoRet
  /\ call' = [NoCall EXCEPT !.op = "load"]
  /\ StoreUnchanged

\* word_vec on the model that a load has returned
LoadReturned == call.op = "ft_word_vec" \/ (call.op = "load" /\ ret.kind # "raise")

LoadedWordVec == LoadReturned /\ FtWordVec

NextLegacy == RollbackOptimization

SpecLegacy == InitLegacy /\ [][NextLegacy]_vars

NextLoad == LoadFastText \/ LoadGeneric \/ LoadedWordVec

SpecLoad == InitLegacy /\ [][NextLoad]_vars

SpecCorrupt == InitCorrupt /\ [][NextLegacy]_vars

NextUnpack == UnpackCopy \/ RollbackOptimization

SpecUnpack == InitLegacy /\ [][NextUnpack]_vars

NextAdd == Add(MaxRows) \/ AddIllShaped(MaxRows) \/ GetVector

SpecAdd == Init /\ [][NextAdd]_vars

NextEval ==
  \/ GetVector
  \/ \E t \in Threads : EvalStart(t) \/ EvalSwap(t) \/ EvalQuery(t) \/ EvalRestore(t)

SpecEval == InitEval /\ [][NextEval]_vars

NextDoc == DocInitSims \/ DocMostSimilar

SpecDoc == InitDoc /\ [][NextDoc]_vars

NextConcurrent ==
  \E t \in Threads :
    \/ ThreadStart(t)
    \/ ThreadCheckNorm(t)
    \/ ThreadBuildNorm(t)
    \/ ThreadCheckNgrams(t)
    \/ ThreadBuildNgrams(t)
    \/ ThreadAnswer(t)

SpecConcurrent == InitConcurrent /\ [][NextConcurrent]_vars

\* ---- claims -----------------------------------------------------------------
IsAdd(c) == c.op \in {"add", "setitem"}

RowOf(voc, m, e) == m[voc[e].index + 1]

\* C1: after add([e],[v]) on a store that does not contain e, get(e) returns v; after
\* add([e],[v2], replace=False) on a store that contains e, get(e) returns what it
\* returned before; after add([e],[v2], replace=True) or store[e] = v2 it returns v2, e
\* keeps its index and no row is appended.
\* the step is add([e], [v], replace) or, with replace = TRUE, store[e] = v
AddOne(e, v, replace) ==
  \/ DoAdd("add", <<e>>, <<v>>, replace, MaxRows)
  \/ replace /\ DoAdd("setitem", <<e>>, <<v>>, TRUE, MaxRows)

C1_AddStep ==
  \A e \in Entities : \A v \in InVecs : \A replace \in BOOLEAN :
    AddOne(e, v, replace) =>
      LET got == word_vec(vocab', vectors', vectors_norm', e, FALSE)
      IN /\ e \notin DOMAIN vocab => got.vec = Some(v)
         /\ (e \in DOMAIN vocab /\ ~replace) =>
              got.vec = Some(RowOf(vocab, vectors, e))
         /\ (e \in DOMAIN vocab /\ replace) =>
              /\ got.vec = Some(v)
              /\ vocab'[e].index = vocab[e].index
              /\ Len(vectors') = Len(vectors)

C1_AddThenGet == [][C1_AddStep]_vars

\* C2: the number of entities of the mapping equals the number of rows of the matrix
\* and the length of the insertion-order entity list.
C2_CountsAgree ==
  /\ Cardinality(DOMAIN vocab) = Len(vectors)
  /\ Cardinality(DOMAIN vocab) = Len(index2word)

\* C3: the indexes of the mapping are pairwise distinct, they are exactly 0..n-1 for n
\* entities in order of first insertion, and row i of the matrix belongs to the entity
\* of index i: an appended entity's row holds the vector supplied for it.
C3_Indexes ==
  LET n == Cardinality(DOMAIN vocab)
  IN /\ \A e1, e2 \in DOMAIN vocab : vocab[e1].index = vocab[e2].index => e1 = e2
     /\ {vocab[e].index : e \in DOMAIN vocab} = 0..(n - 1)
     /\ \A e \in DOMAIN vocab : vocab[e].index + 1 <= Len(index2word)
                                  /\ index2word[vocab[e].index + 1] = e

C3_NewRow ==
  \A e \in Entities \ DOMAIN vocab : \A v \in InVecs : \A replace \in BOOLEAN :
    AddOne(e, v, replace) => RowOf(vocab', vectors', e) = v

C3_DenseIndexes == [][C3_Indexes' /\ C3_NewRow]_vars

\* C4: immediately after an add (or store[e] = v) returns, vectors_norm is None.
C4_AddInvalidatesCache == IsAdd(call) => vectors_norm = None

IsQuery(c) == c.op \in {"most_similar", "most_similar_cosmul", "doesnt_match"}

\* the query got past its init_sims() and used vectors_norm to produce what it returned
ReadNorm(c, r) ==
  /\ IsQuery(c)
  /\ r.kind \in {"list", "dists", "word"}
  /\ ~(c.op = "most_similar" /\ c.topn # None /\ Val(c.topn) < 1)

\* C5: whenever most_similar, most_similar_cosmul or doesnt_match reads vectors_norm,
\* the cache has the rows of the current matrix, each unit-normalized.
C5_NoStaleRead == ReadNorm(call, ret) => vectors_norm = Some(l2_norm(vectors))

\* C6: once init_sims(replace=True) has made vectors_norm and the matrix share storage,
\* the next add fails and leaves mapping, entity list, matrix and cache unchanged.
C6_AddStep ==
  (shared /\ Len(vectors) > 0 /\ IsAdd(call')) =>
    /\ ret'.kind = "raise"
    /\ UNCHANGED <<vocab, index2word, vectors, vectors_norm>>

C6_AddAfterReplaceFails == [][C6_AddStep]_vars

\* C7: get(entity) raises KeyError if and only if the entity is absent from the mapping;
\* when it is present the row of its index is returned, when it is absent no vector is
\* returned; in both outcomes mapping, entity list, matrix and cache are unchanged.
C7_GetStep ==
  call'.op = "get_vector" =>
    LET e == Val(call'.word)
    IN /\ (ret'.kind = "raise") <=> (e \notin DOMAIN vocab)
       /\ ret'.kind = "raise" => (ret'.err = "KeyError" /\ ret'.vec = None)
       /\ ret'.kind # "raise" => (ret'.kind = "vector" /\ ret'.vec = Some(RowOf(vocab, vectors, e)))
       /\ UNCHANGED <<vocab, index2word, vectors, vectors_norm, shared>>

C7_GetNotFound == [][C7_GetStep]_vars

C7_Witness ==
  /\ call.op = "get_vector"
  /\ ret.kind = "raise"
  /\ Len(vectors) > 0
  /\ vectors_norm # None

TermWords(terms) == {Val(terms[k].word) : k \in {j \in 1..Len(terms) : terms[j].word # None}}

ItemWords(items) == [k \in 1..Len(items) |-> items[k][1]]

\* the rules a truncated result list obeys: no input entity, at most topn pairs, best first
ListShape(c, items) ==
  /\ \A k \in 1..Len(items) : items[k][1] \notin TermWords(c.positive \o c.negative)
  /\ Len(items) <= Max(Val(c.topn), 0)
  /\ \A k \in 1..(Len(items) - 1) : ScoreCmp(items[k][2], items[k + 1][2]) >= 0

\* C8: the list most_similar returns holds no entity of positive or negative, has at
\* most topn pairs, is ordered by non-increasing score and, when restrict_vocab is set,
\* holds only entities whose index is below restrict_vocab.
C8_MostSimilarShape ==
  (call.op = "most_similar" /\ ret.kind = "list") =>
    /\ ListShape(call, ret.items)
    /\ call.restrict_vocab # None =>
         \A k \in 1..Len(ret.items) : vocab[ret.items[k][1]].index < Val(call.restrict_vocab)

\* C9: on a store with entities, what most_similar_cosmul returns is shaped as by
\* most_similar: the empty list when topn < 1, and otherwise a list without the input
\* entities, of at most topn pairs, best score first.
C9_CosmulShape ==
  (/\ call.op = "most_similar_cosmul"
   /\ Len(vectors) > 0
   /\ ret.kind # "raise"
   /\ call.topn # None) =>
    /\ ret.kind = "list"
    /\ Val(call.topn) < 1 => ret.items = <<>>
    /\ ListShape(call, ret.items)

\* C10: on a store with entities, with a single positive term and no negative term,
\* most_similar_cosmul returns the entities most_similar returns for the same topn, in
\* the same order.
C10_CosmulSameRanking ==
  (/\ call.op = "most_similar_cosmul"
   /\ Len(vectors) > 0
   /\ Len(call.positive) = 1
   /\ call.negative = <<>>
   /\ call.topn # None
   /\ ret.kind # "raise") =>
    LET ms == most_similar(vocab, index2word, vectors, vectors_norm,
                           call.positive, call.negative, call.topn, None)
    IN /\ ms.kind = ret.kind
       /\ ItemWords(ms.items) = ItemWords(ret.items)

\* the query has a term, and every entity it names is in the mapping
KnownTerms(c) ==
  /\ c.positive \o c.negative # <<>>
  /\ TermWords(c.positive \o c.negative) \subseteq DOMAIN vocab

\* C11: most_similar and most_similar_cosmul, asked for a ranking (topn absent or at
\* least 1), fail with ValueError exactly when positive and negative are both empty,
\* and a query whose terms are known, positive or negative, is accepted.
C11_EmptyQueryValueError ==
  (/\ call.op \in {"most_similar", "most_similar_cosmul"}
   /\ (call.topn = None \/ Val(call.topn) >= 1)) =>
    /\ (ret.kind = "raise" /\ ret.err = "ValueError")
         <=> (call.positive = <<>> /\ call.negative = <<>>)
    /\ KnownTerms(call) => ret.kind # "raise"

\* 1 - cosine of the rows the mapping gives to e and to e1
RawDistance(e, e1) ==
  LET u == RowOf(vocab, vectors, e)
      v == RowOf(vocab, vectors, e1)
  IN <<Norm(u) * Norm(v) - dot(u, v), Norm(u) * Norm(v)>>

CloserSet(e1, e2) ==
  {e \in (DOMAIN vocab) \ {e1} : FracCmp(RawDistance(e, e1), RawDistance(e2, e1)) < 0}

\* C12: for entities e1, e2 of the store, closer_than(e1, e2) lists exactly the entities
\* whose distance to e1 is strictly smaller than the distance of e2 to e1, each once,
\* without e1 and without e2, and rank(e1, e2) is len(closer_than(e1, e2)) + 1.
C12_CloserThanRank ==
  LET e1 == call.entities[1]
      e2 == call.entities[2]
  IN /\ (call.op = "closer_than" /\ ret.kind = "list") =>
          /\ {ret.items[k] : k \in 1..Len(ret.items)} = CloserSet(e1, e2)
          /\ Len(ret.items) = Cardinality(CloserSet(e1, e2))
          /\ \A k \in 1..Len(ret.items) : ret.items[k] \notin {e1, e2}
     /\ (call.op = "rank" /\ ret.kind = "value") =>
          Val(ret.value) = Len(closer_than(vocab, index2word, vectors, vectors_norm, e1, e2).items) + 1

\* 1 - cosine of a row and the row the mapping gives to e
RowDistance(row, e) ==
  LET v == RowOf(vocab, vectors, e)
  IN <<Norm(row) * Norm(v) - dot(row, v), Norm(row) * Norm(v)>>

SameFrac(x, y) == x[2] > 0 /\ y[2] > 0 /\ FracCmp(x, y) = 0

\* C13: similarity(e1, e2), distance(e1, e2) and distances(e, others) on entities of the
\* store return the cosine (1 - cosine) of the current rows of the matrix, whatever the
\* normalized cache holds (nothing, the rows of today, the rows of before an append),
\* and leave mapping, entity list, matrix and cache as they were.
C13_Step ==
  LET c == call'
      known == \A k \in 1..Len(c.entities) : c.entities[k] \in DOMAIN vocab
  IN /\ c.op \in {"similarity", "distance", "distances"} => StoreUnchanged
     /\ (c.op = "similarity" /\ known) =>
          /\ ret'.kind = "value"
          /\ LET d == RawDistance(c.entities[1], c.entities[2])
             IN SameFrac(Val(ret'.value), <<d[2] - d[1], d[2]>>)
     /\ (c.op = "distance" /\ known) =>
          /\ ret'.kind = "value"
          /\ SameFrac(Val(ret'.value), RawDistance(c.entities[1], c.entities[2]))
     /\ (c.op = "distances" /\ known /\ Val(c.word) \in DOMAIN vocab) =>
          LET others == IF c.entities = <<>> THEN vectors
                        ELSE [k \in 1..Len(c.entities) |-> RowOf(vocab, vectors, c.entities[k])]
          IN /\ ret'.kind = "dists"
             /\ Len(ret'.dists) = Len(others)
             /\ \A k \in 1..Len(others) : SameFrac(ret'.dists[k], RowDistance(others[k], Val(c.word)))

C13_DistancesIgnoreCache == [][C13_Step]_vars

\* distances to every row were asked for while the cache had fewer rows than the matrix
C13_Witness ==
  /\ call.op = "distances"
  /\ call.entities = <<>>
  /\ ret.kind = "dists"
  /\ vectors_norm # None
  /\ Len(Val(vectors_norm)) < Len(vectors)

\* the input entities that are in the mapping, in input order
Resolved(words) == SelectSeq(words, LAMBDA w : w \in DOMAIN vocab)

\* the unit vector of the row the mapping gives to e
UnitOf(e) == UnitRow(RowOf(vocab, vectors, e))

\* C14: doesnt_match(entities) ignores the inputs that are not in the store, fails with
\* ValueError exactly when no input is left, and otherwise returns an input entity whose
\* cosine to the unit mean of the inputs' vectors is minimal, the smallest entity in
\* string order among those of minimal cosine.
C14_DoesntMatch ==
  call.op = "doesnt_match" =>
    LET used == Resolved(call.entities)
        msum == VecSum([k \in 1..Len(used) |-> UnitOf(used[k])])
        score(e) == dot(UnitOf(e), msum)
    IN /\ (ret.kind = "raise" /\ ret.err = "ValueError") <=> (used = <<>>)
       /\ used # <<>> =>
            /\ ret.kind = "word"
            /\ \E k \in 1..Len(used) : used[k] = Val(ret.word)
            /\ \A k \in 1..Len(used) :
                 \/ score(Val(ret.word)) < score(used[k])
                 \/ score(Val(ret.word)) = score(used[k]) /\ WordOrd[Val(ret.word)] <= WordOrd[used[k]]

\* the subword store holds an imported matrix: init_post_load has run
Loaded == vectors_ngrams # None

Hashes(word) == ft_ngram_hashes(word, min_n, max_n, bucket, compatible_hash)

\* C15: on a loaded subword store, word_vec(word) of a word outside the vocabulary
\* fails, with KeyError, if and only if bucket is 0; with bucket > 0 it returns a vector,
\* the zero vector when the word has no n-gram.  For a word of the vocabulary it
\* returns the word's row of `vectors`, for every bucket.
C15_OovCompose ==
  (call.op = "ft_word_vec" /\ ~call.use_norm /\ Loaded) =>
    LET word == Val(call.word)
    IN /\ word \notin DOMAIN vocab =>
            /\ (ret.kind = "raise") <=> (bucket = 0)
            /\ ret.kind = "raise" => ret.err = "KeyError"
            /\ ret.kind # "raise" => ret.kind = "vector"
            /\ (bucket > 0 /\ Hashes(word) = <<>>) => ret.vec = Some([i \in 1..vector_size |-> 0])
       /\ word \in DOMAIN vocab =>
            /\ ret.kind = "vector"
            /\ ret.vec = Some(RowOf(vocab, vectors, word))

\* a word without n-grams was looked up outside the vocabulary, with buckets
C15_Witness ==
  /\ call.op = "ft_word_vec"
  /\ ~call.use_norm
  /\ Loaded
  /\ bucket > 0
  /\ Val(call.word) \notin DOMAIN vocab
  /\ Hashes(Val(call.word)) = <<>>
  /\ ret.kind = "vector"

\* C16: on a loaded subword store, whenever `word in store` is True, word_vec(word)
\* returns a vector and does not fail, for every word and every bucket.
C16_ContainsGivesVector ==
  (/\ call.op = "ft_word_vec"
   /\ ~call.use_norm
   /\ Loaded
   /\ ft_contains(vocab, Val(call.word))) => ret.kind = "vector"

\* how many n-grams of the sequence fall into bucket h
Hits(ngram_hashes, h) == Cardinality({k \in 1..Len(ngram_hashes) : ngram_hashes[k] = h})

\* C17: on a loaded subword store with bucket > 0, word_vec(word) of a word outside the
\* vocabulary that has n-grams returns the sum of the bucket rows of its n-gram hashes,
\* a bucket hit by k n-grams counted k times, divided by the number of n-grams; every
\* hash is in 0..bucket-1 and the bucket table is left as it was.
C17_Step ==
  (/\ call'.op = "ft_word_vec"
   /\ ~call'.use_norm
   /\ Loaded
   /\ bucket > 0
   /\ Val(call'.word) \notin DOMAIN vocab
   /\ Hashes(Val(call'.word)) # <<>>) =>
    LET hs == Hashes(Val(call'.word))
        table == Val(vectors_ngrams)
        total == [i \in 1..vector_size |-> SumSeq([h \in 1..bucket |-> Hits(hs, h - 1) * table[h][i]])]
    IN /\ \A k \in 1..Len(hs) : hs[k] \in 0..(bucket - 1)
       /\ ret'.kind = "vector"
       /\ \A i \in 1..vector_size : Val(ret'.vec)[i] * Len(hs) = total[i]
       /\ UNCHANGED vectors_ngrams

C17_OovMean == [][C17_Step]_vars

\* a word outside the vocabulary was composed from a bucket that two of its n-grams hit
C17_Witness ==
  /\ call.op = "ft_word_vec"
  /\ ~call.use_norm
  /\ Loaded
  /\ bucket > 0
  /\ Val(call.word) \notin DOMAIN vocab
  /\ \E h \in 0..(bucket - 1) : Hits(Hashes(Val(call.word)), h) >= 2
  /\ ret.kind = "vector"
  /\ Val(ret.vec) # [i \in 1..vector_size |-> 0]

\* C18: init_post_load(vectors) with bucket > 0 keeps the first len(vocab) imported rows
\* as vectors_vocab and the others as the bucket table, and makes the row of every word
\* of the vocabulary in `vectors` (its row of vectors_vocab + the bucket rows of its
\* n-gram hashes, repeats counted) / (number of n-grams + 1); adjust_vectors run again
\* leaves `vectors`, vectors_vocab and the bucket table as they are.
C18_Step ==
  /\ \A imported \in FtMatrices :
       (/\ DoInitPostLoad(imported)
        /\ bucket > 0
        /\ Len(imported) = Cardinality(DOMAIN vocab) + bucket) =>
         LET n == Cardinality(DOMAIN vocab)
         IN /\ vectors_vocab' = Some(SubSeq(imported, 1, n))
            /\ vectors_ngrams' = Some(SubSeq(imported, n + 1, Len(imported)))
            /\ Len(vectors') = n
            /\ \A w \in DOMAIN vocab : \A i \in 1..vector_size :
                 LET hs == Hashes(w)
                     row == vocab[w].index + 1
                 IN vectors'[row][i] * (Len(hs) + 1)
                      = imported[row][i]
                        + SumSeq([h \in 1..bucket |-> Hits(hs, h - 1) * imported[n + h][i]])
  /\ (call'.op = "adjust_vectors" /\ Loaded /\ bucket > 0) =>
       /\ ret'.kind # "raise"
       /\ UNCHANGED <<vectors, vectors_vocab, vectors_ngrams>>

C18_InitPostLoad == [][C18_Step]_vars

\* a matrix was imported with buckets and a row of the vocabulary was recomputed
C18_Witness ==
  /\ call.op = "init_post_load"
  /\ ret.kind # "raise"
  /\ bucket > 0
  /\ Len(vectors) > 0
  /\ vectors # Val(vectors_vocab)

\* C19: _unpack on a table that has bucket rows already returns the table it was given,
\* row for row, for every hash2index, and draws no random row: np.random is left as it was.
C19_Step ==
  (/\ call'.op = "rollback_optimization"
   /\ hash2index # None
   /\ Len(Val(vectors_ngrams)) = bucket) =>
    /\ ret'.kind # "raise"
    /\ vectors_ngrams' = vectors_ngrams
    /\ rand_state' = rand_state

C19_UnpackFullIsNoOp == [][C19_Step]_vars

\* a table of bucket rows, two or more, went through _unpack
C19_Witness ==
  /\ call.op = "rollback_optimization"
  /\ ret.kind # "raise"
  /\ hash2index = None
  /\ rand_state = None
  /\ Len(Val(vectors_ngrams)) = bucket
  /\ bucket >= 2

\* C20: for a hash2index that maps hashes below bucket one-to-one onto the rows of a
\* compact table of fewer than bucket rows, after _unpack row `hash` of the table is the
\* row `compact_row` of the compact table, for every pair (hash, compact_row) of the map.
C20_Step ==
  (/\ call'.op = "rollback_optimization"
   /\ hash2index # None
   /\ Len(Val(vectors_ngrams)) < bucket) =>
    /\ ret'.kind # "raise"
    /\ Len(Val(vectors_ngrams')) = bucket
    /\ \A k \in 1..Len(Val(hash2index)) :
         Val(vectors_ngrams')[Val(hash2index)[k][1] + 1] = Val(vectors_ngrams)[Val(hash2index)[k][2] + 1]

C20_UnpackRehomesRows == [][C20_Step]_vars

\* C21: after _rollback_optimization of a legacy model the bucket table has exactly
\* bucket rows, each of vector_size entries, and hash2index is gone from the store, so
\* the expansion cannot be applied a second time: from then on the table stays as it is.
C21_Step ==
  /\ call'.op = "rollback_optimization" =>
       /\ ret'.kind # "raise"
       /\ hash2index' = None
       /\ Len(Val(vectors_ngrams')) = bucket
       /\ \A r \in 1..bucket : Len(Val(vectors_ngrams')[r]) = vector_size
  /\ call.op = "rollback_optimization" => UNCHANGED <<vectors_ngrams, hash2index, rand_state>>

C21_ExpandedOnce == [][C21_Step]_vars

\* a compact table was expanded with generated rows and its map was dropped
C21_Witness ==
  /\ call.op = "rollback_optimization"
  /\ hash2index = None
  /\ rand_state # None
  /\ Len(Val(vectors_ngrams)) = bucket

\* C22: once a load has returned a subword store, the store carries no compaction map and
\* its bucket table has bucket rows, so an out-of-vocabulary composition never indexes a
\* compact table.
C22_ExpandedBeforeCompose ==
  LoadReturned => hash2index = None /\ Len(Val(vectors_ngrams)) = bucket

\* the map of a persisted model is malformed: a hash outside [0, bucket), a row outside
\* [0, compact_rows), or two hashes mapped to one row
Malformed(items, b, compact_rows) ==
  \/ \E k \in 1..Len(items) : items[k][1] < 0 \/ items[k][1] >= b
  \/ \E k \in 1..Len(items) : items[k][2] < 0 \/ items[k][2] >= compact_rows
  \/ \E j, k \in 1..Len(items) : j # k /\ items[j][2] = items[k][2]

\* C23: expanding a damaged artifact (a malformed map, or more compact rows than buckets)
\* ends in an error and leaves the store's table and map as they were.
C23_Step ==
  (/\ RollbackOptimization
   /\ \/ Malformed(Val(hash2index), bucket, Len(Val(vectors_ngrams)))
      \/ Len(Val(vectors_ngrams)) > bucket)
  => ret'.kind = "raise" /\ UNCHANGED <<vectors_ngrams, hash2index>>
C23_CorruptAborts == [][C23_Step]_vars

\* C24: _unpack_copy and _unpack are the same operation: on the table, the bucket count and
\* the valid map of a persisted model both return tables of the same shape that agree on
\* every row whose index is a hash of the map, and with compact_rows = bucket both return
\* the input table.
C24_Step ==
  UnpackCopy =>
    LET m == Val(vectors_ngrams)
        items == Val(hash2index)
        inplace == _unpack(m, bucket, items, 1, rand_state)
        copy == _unpack_copy(m, bucket, items, 1, rand_state)
    IN /\ inplace.kind = copy.kind
       /\ Len(inplace.m) = Len(copy.m)
       /\ \A k \in 1..Len(items) : inplace.m[items[k][1] + 1] = copy.m[items[k][1] + 1]
       /\ Len(m) = bucket => inplace.m = m /\ copy.m = m
C24_UnpackCopyAgrees == [][C24_Step]_vars

\* what the call of thread state th returns when no other thread runs: init_sims(), where
\* the call makes it, fills the caches that were empty when the call began
Alone(th) ==
  LET fill == CallsInitSims(th.q)
      norm == IF fill /\ th.norm0 = None THEN Some(l2_norm(vectors)) ELSE th.norm0
      ngrams_norm == IF fill /\ th.ngrams_norm0 = None THEN Some(l2_norm(Val(vectors_ngrams)))
                     ELSE th.ngrams_norm0
  IN Answer(th.q, norm, ngrams_norm)

\* C25: read-only queries running in parallel on a store that nobody mutates, several of
\* them building the normalized caches at the same time included, each return what they
\* return when run alone, and no step changes the matrix, the mapping or the bucket table.
C25_Step ==
  /\ UNCHANGED <<vocab, index2word, vectors, vectors_vocab, vectors_ngrams, bucket>>
  /\ \A t \in Threads : ThreadAnswer(t) => ret' = Alone(threads[t])
C25_ConcurrentQueries == [][C25_Step]_vars

\* a ranking has returned while another thread, which had found the cache empty as well,
\* is still about to store its own copy of it
C25_Witness ==
  /\ call.op = "most_similar"
  /\ ret.kind # "raise"
  /\ \E t \in Threads : threads[t].pc = "build_norm" /\ threads[t].norm0 = None

\* the number of swaps of the sequence swaps that exchange rows h and i
SwapsBetween(swaps, h, i) == Cardinality({j \in 1..Len(swaps) : {swaps[j][1], swaps[j][2]} = {h, i}})

\* C26: when a table of fewer than bucket rows is expanded, every pair (hash, row) of the
\* map with hash # row causes exactly one swap of rows hash and row, a pair with hash = row
\* causes none, and every swap for a hash inside the compact range is made before any swap
\* for a hash in the appended range.
C26_Step ==
  (RollbackOptimization /\ Len(Val(vectors_ngrams)) < bucket) =>
    LET items == Val(hash2index)
        orig_rows == Len(Val(vectors_ngrams))
        swaps == _unpack(Val(vectors_ngrams), bucket, items, 1, rand_state).swaps
    IN /\ \A k \in 1..Len(items) :
            SwapsBetween(swaps, items[k][1], items[k][2]) = IF items[k][1] = items[k][2] THEN 0 ELSE 1
       /\ \A j, k \in 1..Len(swaps) : swaps[j][1] < orig_rows /\ swaps[k][1] >= orig_rows => j < k
C26_SwapOrder == [][C26_Step]_vars

\* C27: add with vectors that do not fit (rows of another width, or another number of rows
\* than entities) fails and leaves the mapping, the entity list and the matrix as they
\* were, so that no entity is in the mapping without a row of the matrix.
C27_Step ==
  AddIllShaped(MaxRows) =>
    /\ ret'.kind = "raise"
    /\ UNCHANGED <<vocab, index2word, vectors>>
    /\ \A e \in DOMAIN vocab' : vocab'[e].index < Len(vectors')
C27_AddIllShapedAtomic == [][C27_Step]_vars

\* the rows of a table, and the orders in which a dict can hand out the pairs of a map
RowsOf(t) == {t[k] : k \in 1..Len(t)}
Orders(items) == InjSeqs(RowsOf(items), Len(items))

\* C28: the table that _unpack returns depends on the compact table, the bucket count and
\* the set of pairs only: whatever the order in which the map hands out its pairs, the
\* learned rows sit at the same positions, and every row of the compact table is still
\* in the table.
C28_Step ==
  RollbackOptimization =>
    LET m == Val(vectors_ngrams)
        t1 == Val(vectors_ngrams')
    IN /\ RowsOf(m) \subseteq RowsOf(t1)
       /\ \A other \in Orders(Val(hash2index)) :
            LET t2 == _unpack(m, bucket, other, 1, rand_state).m
            IN \A r \in 1..Len(t1) : (t1[r] \in RowsOf(m) \/ t2[r] \in RowsOf(m)) => t1[r] = t2[r]
C28_OrderIndependent == [][C28_Step]_vars

\* C29: an evaluation never exposes a foreign mapping: at every point the mapping of the
\* store is its own (the words of index2word, each with its row), a get_vector of a word
\* of the store by any thread succeeds, and so it is when the evaluation has ended,
\* normally or by an error of its most_similar call.
C29_OwnMapping ==
  /\ DOMAIN vocab = RowsOfSeq(index2word)
  /\ call.op = "get_vector" => ret.kind # "raise"

\* C30: once Doc2VecKeyedVectors.init_sims has run, with a mapfile or without,
\* vectors_docs_norm has the shape of vectors_docs and each of its rows is the unit
\* normalization of the row of vectors_docs, so that the scores of most_similar are the
\* cosines between the documents.
C30_DocNormUnit ==
  /\ docvecs.vectors_docs_norm # None =>
       Val(docvecs.vectors_docs_norm) = l2_norm(docvecs.vectors_docs)
  /\ call.op = "doc_most_similar" =>
       \A r \in 1..Len(docvecs.vectors_docs) :
         LET v == docvecs.vectors_docs[r]
             w == docvecs.vectors_docs[Val(call.topn) + 1]
         IN ret.dists[r][1] * Norm(v) * Norm(w) = Scale * Scale * dot(v, w)
====
